---- MODULE Spec2Model ----
(***************************************************************************)
(* Lifecycle of one ModelManager (src/src/model_manager.py): lazy load,    *)
(* usage-counted leases (get_model), idle-timeout monitor thread,          *)
(* force_load / force_unload / shutdown, under true thread interleaving.   *)
(*                                                                         *)
(* Threads.  NWorkers request threads take leases (engine.transcribe), one *)
(* control thread calls force_load and force_unload (the admin endpoints   *)
(* of main.py), one thread calls shutdown (shutdown_model_manager holds    *)
(* _instance_lock around it, so shutdowns never overlap), and the manager  *)
(* starts its own monitor threads.                                         *)
(*                                                                         *)
(* Granularity.  Every `with self._lock:` block that does not run the load *)
(* step is one atomic action guarded by LockAvailable; the load step       *)
(* (_load_model) runs while the RLock is held, so a load is two actions    *)
(* (begin, then success or failure) with `lock` naming the holder between. *)
(* Everything outside a lock block (the lease body, _stop_monitor, the     *)
(* monitor's wait and stop tests) is a step of its own.                    *)
(*                                                                         *)
(* Time.  The code reads the clock only to compare an elapsed time with a  *)
(* threshold (time.time() - _last_used_time >= timeout_sec, wait(interval),*)
(* join(timeout=5)), so the model keeps elapsed and remaining times, which *)
(* Tick advances by TickSec seconds and which stop at their threshold.      *)
(***************************************************************************)
EXTENDS Integers, FiniteSets, Sequences, TLC

\* ---------------------------------------------------------------- bounds
NWorkers == 2          \* request threads taking leases
MaxLoads == 2          \* executions of the load step explored
MaxMonitors == 2       \* monitor threads alive or joined at one time
TimeoutSec == 10       \* the configured timeout_sec, in seconds
TickSec == 5           \* seconds the clock advances in one Tick
MaxTimeoutSec == 64    \* largest timeout_sec whose check interval is computed

\* ------------------------------------------------------ program constants
MaxCheckInterval == 30
JoinTimeoutSec == 5

Workers == 1..NWorkers
Admin == NWorkers + 1
Closer == NWorkers + 2
Threads == 1..(NWorkers + 2)
MonIds == 1..MaxMonitors
Instances == 1..(NWorkers + 1)

Min(a, b) == IF a <= b THEN a ELSE b
Max(a, b) == IF a >= b THEN a ELSE b
Least(S) == CHOOSE x \in S : \A y \in S : x <= y

\* check_interval = min(30, self.timeout_sec // 2)
CheckInterval == Min(MaxCheckInterval, TimeoutSec \div 2)

VARIABLES
    model,          \* self._model: 0 = None, else the identity of the loaded object
    usage_count,    \* self._usage_count
    last_used_age,  \* time.time() - self._last_used_time, counted up to TimeoutSec
    is_loading,     \* self._is_loading
    lock,           \* holder of self._lock across a load step, 0 = free
    monitor_thread, \* self._monitor_thread: 0 = None, else a thread of mon
    stop_event,     \* self._monitor_stop_event
    mon,            \* the monitor threads: position, seconds of wait left, last tick's outcome
    pc,             \* each calling thread's position
    lease,          \* the object get_model yielded to each worker
    ret,            \* what each thread's last finished call returned
    join,           \* _stop_monitor's join in progress: the thread joined, seconds of timeout left
    loads,          \* executions of _load_model started so far
    released_age,   \* seconds since the latest lease release, counted up to TimeoutSec
    outer,          \* leases each worker holds beneath the get_model call it is in
    enabled_models, \* MultiModelManager.enabled_models of the latest construction
    router,         \* _multi_manager: "none" = None, "ready" = an instance
    managers,       \* MultiModelManager._managers: canonical name -> its manager
    rq,             \* the latest call on the MultiModelManager and what it gave
    mgr_b,          \* a second ModelManager: its fields and its caller's position
    b_done,         \* calls on it that began and returned during one load of the first
    timeout_sec,    \* self.timeout_sec of a manager whose monitor is followed on its own
    check_interval, \* check_interval of that manager's _monitor_timeout, None before it runs
    waited,         \* seconds its latest wait(timeout=check_interval) lasted, None before it
    storage,        \* what is at self.model_path: nothing, a file, or a directory and its files
    model_name,     \* self.model_name
    model_source,   \* model_source of the latest _load_model, <<>> before it is set
    loaded_by,      \* the ASRModel call the latest _load_model made
    loaded_age,     \* seconds since the latest load by force_load finished, counted up to TimeoutSec
    un,             \* each unloading thread's position in its locked block, the handle it saw, its latest outcome
    model_manager,  \* module global _model_manager: None or the n-th ModelManager constructed
    instance_lock,  \* holder of the module's _instance_lock, 0 when free
    instances,      \* ModelManager objects constructed by get_model_manager so far
    shutdowns,      \* completed shutdown_model_manager calls
    acc,            \* per caller of get_model_manager: position, epoch at entry and at return, value returned
    req             \* the latest POST /v1/audio/transcriptions: its model name, HTTP status, and the manager its lease came from

vars == <<model, usage_count, last_used_age, is_loading, lock, monitor_thread,
          stop_event, mon, pc, lease, ret, join, loads, released_age>>

\* What the lifecycle specifications of one manager leave alone.
rvars == <<enabled_models, router, managers, rq>>

bvars == <<mgr_b, b_done>>

ivars == <<timeout_sec, check_interval, waited>>

svars == <<storage, model_name, model_source, loaded_by>>

pvars == <<loaded_age>>

uvars == <<un>>

gvars == <<model_manager, instance_lock, instances, shutdowns, acc>>

qvars == <<req>>

xvars == <<outer, rvars, bvars, ivars, svars, pvars, uvars, gvars, qvars>>

\* What the steps of each part leave alone besides the first manager.
besidesNest == <<rvars, bvars, ivars, svars, pvars, uvars, gvars, qvars>>
besidesRouter == <<outer, bvars, ivars, svars, pvars, uvars, gvars, qvars>>
besidesB == <<outer, rvars, ivars, svars, pvars, uvars, gvars, qvars>>
besidesInterval == <<outer, rvars, bvars, svars, pvars, uvars, gvars, qvars>>
besidesSource == <<outer, rvars, bvars, ivars, pvars, uvars, gvars, qvars>>
besidesPrewarm == <<outer, rvars, bvars, ivars, svars, uvars, gvars, qvars>>
besidesUnload == <<outer, rvars, bvars, ivars, svars, pvars, gvars, qvars>>
besidesSingleton == <<outer, rvars, bvars, ivars, svars, pvars, uvars, qvars>>
besidesRequest == <<outer, rvars, bvars, ivars, svars, pvars, uvars, gvars>>

allvars == <<vars, xvars>>

\* No nested lease anywhere.
NestAtRest == outer = [t \in Workers |-> 0]

\* No call made on the multi-model manager.
NoCall == [op |-> "none", name |-> <<>>, res |-> "none"]

\* No MultiModelManager constructed.
RouterAtRest ==
    /\ enabled_models = {}
    /\ router = "none"
    /\ managers = <<>>
    /\ rq = NoCall

\* The thread that calls the second manager, and the calls it makes.
Other == NWorkers + 3
BOps == {"get_model", "get_status", "force_unload"}

\* The second manager as __init__ leaves it, its caller idle.
BAtRest ==
    /\ mgr_b = [model |-> 0, usage_count |-> 0, is_loading |-> FALSE, lock |-> 0,
                monitor |-> FALSE, pc |-> "idle", ret |-> "none", since |-> 0]
    /\ b_done = [op \in BOps |-> 0]

\* The monitor followed on its own has not started.
None == 0 - 1
IntervalAtRest == timeout_sec = TimeoutSec /\ check_interval = None /\ waited = None

\* Nothing at the model path, the default model name, no load step run.
SourceAtRest ==
    /\ storage = [at |-> "nothing", nemo |-> {}, config |-> {}]
    /\ model_name = <<"nvidia/", "canary-1b-v2">>
    /\ model_source = <<>>
    /\ loaded_by = "none"

\* No load by force_load has finished.
PrewarmAtRest == loaded_age = 0

\* The threads whose unload is followed step by step: a monitor tick, a
\* force_unload and a shutdown.
UMonitor == NWorkers + 4
UAdmin == NWorkers + 5
UCloser == NWorkers + 6
Unloaders == {UMonitor, UAdmin, UCloser}

\* None of them is in its locked block.
UnloadAtRest == un = [u \in Unloaders |-> [pc |-> "idle", seen |-> 0, did |-> "none"]]

\* The module as imported: no singleton yet, nobody in the accessor.
SingletonAtRest ==
    /\ model_manager = None
    /\ instance_lock = 0
    /\ instances = 0
    /\ shutdowns = 0
    /\ acc = [t \in Workers |-> [pc |-> "idle", began |-> 0, ended |-> 0, got |-> None]]

\* No transcription request received.
RequestAtRest == req = [pc |-> "idle", name |-> <<>>, status |-> 0, manager |-> "None"]

AtRest == NestAtRest /\ RouterAtRest /\ BAtRest /\ IntervalAtRest /\ SourceAtRest /\ PrewarmAtRest /\ UnloadAtRest /\ SingletonAtRest /\ RequestAtRest

DeadThread == [pc |-> "dead", wake |-> 0, res |-> "none"]
NoJoin == [target |-> 0, left |-> 0]

InitEager ==
    /\ model = 1
    /\ usage_count = 0
    /\ last_used_age = TimeoutSec
    /\ is_loading = FALSE
    /\ lock = 0
    /\ monitor_thread = 1
    /\ stop_event = FALSE
    /\ mon = [m \in MonIds |-> IF m = 1 THEN [pc |-> "loop", wake |-> 0, res |-> "none"]
                                        ELSE DeadThread]
    /\ pc = [t \in Threads |-> "idle"]
    /\ lease = [t \in Workers |-> 0]
    /\ ret = [t \in Threads |-> "none"]
    /\ join = NoJoin
    /\ loads = 1
    /\ released_age = TimeoutSec
    /\ AtRest

\* The state __init__ leaves: nothing loaded, no monitor, _last_used_time = 0,
\* which the epoch clock is further from than any timeout.
Constructed ==
    /\ model = 0
    /\ usage_count = 0
    /\ last_used_age = TimeoutSec
    /\ is_loading = FALSE
    /\ lock = 0
    /\ monitor_thread = 0
    /\ stop_event = FALSE
    /\ mon = [m \in MonIds |-> DeadThread]
    /\ pc = [t \in Threads |-> "idle"]
    /\ lease = [t \in Workers |-> 0]
    /\ ret = [t \in Threads |-> "none"]
    /\ join = NoJoin
    /\ loads = 0
    /\ released_age = TimeoutSec

Init == Constructed /\ AtRest

\* ------------------------------------------------------------ primitives

\* threading.RLock: free, or already held by the asking thread.
LockAvailableAlways(t) == TRUE
LockAvailable(t) == lock = 0 \/ lock = t

IsAlive(m) == m # 0 /\ mon[m].pc # "dead"
Alive == {m \in MonIds : mon[m].pc # "dead"}

\* The object a load creates is none of the objects still referenced.
NewInstance == Least({i \in Instances : i # model /\ \A w \in Workers : lease[w] # i})

\* A Thread object for a new monitor: none that still runs or is being joined.
FreeMon == {m \in MonIds : mon[m].pc = "dead" /\ join.target # m}

\* _unload_model, called with the lock held: nothing when there is no model or
\* when it is in use, else the handle is dropped.
UnloadModel == model' = (IF model = 0 \/ usage_count > 0 THEN model ELSE 0)

\* _start_monitor: a new thread only when none is referenced or the
\* referenced one is dead; the stop event is cleared first.
NeedsMonitor == monitor_thread = 0 \/ ~IsAlive(monitor_thread)
StartMonitor ==
    IF NeedsMonitor
    THEN /\ FreeMon # {}
         /\ stop_event' = FALSE
         /\ monitor_thread' = Least(FreeMon)
         /\ mon' = [mon EXCEPT ![Least(FreeMon)] = [pc |-> "loop", wake |-> 0, res |-> "none"]]
    ELSE UNCHANGED <<stop_event, monitor_thread, mon>>

\* ensure_model_loaded up to the call of _load_model (lines 289-296).
BeginLoadUnlocked(t) ==
    /\ loads < MaxLoads
    /\ is_loading' = TRUE
    /\ lock' = lock
    /\ loads' = loads + 1
BeginLoad(t) ==
    /\ loads < MaxLoads
    /\ is_loading' = TRUE
    /\ lock' = t
    /\ loads' = loads + 1

\* ensure_model_loaded after _load_model returned (lines 297-302).
FinishLoadDropsHandle ==
    /\ model' = model
    /\ StartMonitor
    /\ is_loading' = FALSE
    /\ lock' = 0
FinishLoad ==
    /\ model' = NewInstance
    /\ StartMonitor
    /\ is_loading' = FALSE
    /\ lock' = 0

\* ensure_model_loaded after _load_model raised (line 300, then the lock is released).
AbortLoadKeepsLock ==
    /\ is_loading' = FALSE
    /\ lock' = lock
AbortLoad ==
    /\ is_loading' = FALSE
    /\ lock' = 0

\* ------------------------------------------------- clock
Elapse ==
    /\ last_used_age' = Min(last_used_age + TickSec, TimeoutSec)
    /\ released_age' = Min(released_age + TickSec, TimeoutSec)
    /\ mon' = [m \in MonIds |-> [mon[m] EXCEPT !.wake = Max(0, @ - TickSec)]]
    /\ join' = [join EXCEPT !.left = Max(0, @ - TickSec)]
    /\ UNCHANGED <<model, usage_count, is_loading, lock, monitor_thread,
                   stop_event, pc, lease, ret, loads>>

Tick ==
    /\ Elapse
    /\ UNCHANGED xvars

\* ------------------------------------------------- get_model (the lease)
GetModelCall(t) ==
    /\ pc[t] = "idle"
    /\ pc' = [pc EXCEPT ![t] = "gm_enter"]
    /\ ret' = [ret EXCEPT ![t] = "none"]
    /\ UNCHANGED <<model, usage_count, last_used_age, is_loading, lock, monitor_thread,
                   stop_event, mon, lease, join, loads, released_age>>
    /\ UNCHANGED xvars

\* Lines 322-328 when no load is needed, or the first half of them when the
\* load step has to run.
GmEnter(t) ==
    /\ pc[t] = "gm_enter"
    /\ LockAvailable(t)
    /\ IF model # 0 \/ is_loading
       THEN \* ensure_model_loaded returns self._model as it is
            /\ usage_count' = usage_count + 1
            /\ last_used_age' = 0
            /\ lease' = [lease EXCEPT ![t] = model]
            /\ pc' = [pc EXCEPT ![t] = "gm_yield"]
            /\ UNCHANGED <<is_loading, lock, loads>>
       ELSE /\ BeginLoad(t)
            /\ pc' = [pc EXCEPT ![t] = "gm_loading"]
            /\ UNCHANGED <<usage_count, last_used_age, lease>>
    /\ UNCHANGED <<model, monitor_thread, stop_event, mon, ret, join, released_age>>
    /\ UNCHANGED xvars

\* _load_model returned: the rest of ensure_model_loaded and of the locked
\* block of get_model.
GmLoadOk(t) ==
    /\ pc[t] = "gm_loading"
    /\ FinishLoad
    /\ usage_count' = usage_count + 1
    /\ last_used_age' = 0
    /\ lease' = [lease EXCEPT ![t] = model']
    /\ pc' = [pc EXCEPT ![t] = "gm_yield"]
    /\ UNCHANGED <<ret, join, loads, released_age>>
    /\ UNCHANGED xvars

\* _load_model raised: the exception is on its way to get_model's finally.
GmLoadFail(t) ==
    /\ pc[t] = "gm_loading"
    /\ AbortLoad
    /\ pc' = [pc EXCEPT ![t] = "gm_cleanup"]
    /\ UNCHANGED <<model, usage_count, last_used_age, monitor_thread, stop_event, mon,
                   lease, ret, join, loads, released_age>>
    /\ UNCHANGED xvars

\* get_model's finally after a failed load (no lease was acquired).
GmCleanup(t) ==
    /\ pc[t] = "gm_cleanup"
    /\ LockAvailable(t)
    /\ usage_count' = Max(0, usage_count - 1)
    /\ last_used_age' = 0
    /\ pc' = [pc EXCEPT ![t] = "idle"]
    /\ ret' = [ret EXCEPT ![t] = "raised"]
    /\ UNCHANGED <<model, is_loading, lock, monitor_thread, stop_event, mon,
                   lease, join, loads, released_age>>
    /\ UNCHANGED xvars

\* The caller's body under the lease (the with block of engine.transcribe)
\* ends, normally or by raising, and get_model's finally runs.
GmReleaseNoRefresh(t) ==
    /\ pc[t] = "gm_yield"
    /\ LockAvailable(t)
    /\ usage_count' = Max(0, usage_count - 1)
    /\ released_age' = 0
    /\ lease' = [lease EXCEPT ![t] = 0]
    /\ \E how \in {"ok", "raised"} : ret' = [ret EXCEPT ![t] = how]
    /\ pc' = [pc EXCEPT ![t] = "idle"]
    /\ UNCHANGED <<model, last_used_age, is_loading, lock, monitor_thread, stop_event, mon,
                   join, loads>>
    /\ UNCHANGED xvars
GmRelease(t) ==
    /\ pc[t] = "gm_yield"
    /\ LockAvailable(t)
    /\ usage_count' = Max(0, usage_count - 1)
    /\ last_used_age' = 0
    /\ released_age' = 0
    /\ lease' = [lease EXCEPT ![t] = 0]
    /\ \E how \in {"ok", "raised"} : ret' = [ret EXCEPT ![t] = how]
    /\ pc' = [pc EXCEPT ![t] = "idle"]
    /\ UNCHANGED <<model, is_loading, lock, monitor_thread, stop_event, mon,
                   join, loads>>
    /\ UNCHANGED xvars

\* ------------------------------------------------- force_load
\* ensure_model_loaded from force_load: returns at once (and force_load
\* returns True) unless the load step has to run.
ForceLoad(t) ==
    /\ pc[t] = "idle"
    /\ LockAvailable(t)
    /\ IF model # 0 \/ is_loading
       THEN /\ ret' = [ret EXCEPT ![t] = "loaded"]
            /\ UNCHANGED <<pc, is_loading, lock, loads>>
       ELSE /\ BeginLoad(t)
            /\ pc' = [pc EXCEPT ![t] = "fl_loading"]
            /\ ret' = [ret EXCEPT ![t] = "none"]
    /\ UNCHANGED <<model, usage_count, last_used_age, monitor_thread, stop_event, mon,
                   lease, join, released_age>>
    /\ UNCHANGED xvars

FlLoaded(t) ==
    /\ pc[t] = "fl_loading"
    /\ FinishLoad
    /\ pc' = [pc EXCEPT ![t] = "idle"]
    /\ ret' = [ret EXCEPT ![t] = "loaded"]
    /\ UNCHANGED <<usage_count, last_used_age, lease, join, loads, released_age>>

FlLoadOk(t) ==
    /\ FlLoaded(t)
    /\ UNCHANGED xvars

FlLoadFailRaises(t) ==
    /\ pc[t] = "fl_loading"
    /\ AbortLoad
    /\ pc' = [pc EXCEPT ![t] = "idle"]
    /\ ret' = [ret EXCEPT ![t] = "raised"]
    /\ UNCHANGED <<model, usage_count, last_used_age, monitor_thread, stop_event, mon,
                   lease, join, loads, released_age>>
    /\ UNCHANGED xvars

\* The load raised; force_load catches it and returns False.
FlLoadFail(t) ==
    /\ pc[t] = "fl_loading"
    /\ AbortLoad
    /\ pc' = [pc EXCEPT ![t] = "idle"]
    /\ ret' = [ret EXCEPT ![t] = "load_failed"]
    /\ UNCHANGED <<model, usage_count, last_used_age, monitor_thread, stop_event, mon,
                   lease, join, loads, released_age>>
    /\ UNCHANGED xvars

\* ------------------------------------------------- force_unload
ForceUnloadCall(t) ==
    /\ pc[t] = "idle"
    /\ pc' = [pc EXCEPT ![t] = "fu_enter"]
    /\ ret' = [ret EXCEPT ![t] = "none"]
    /\ UNCHANGED <<model, usage_count, last_used_age, is_loading, lock, monitor_thread,
                   stop_event, mon, lease, join, loads, released_age>>
    /\ UNCHANGED xvars

\* The whole locked block of force_unload.
ForceUnloadUnchecked(t) ==
    /\ pc[t] = "fu_enter"
    /\ LockAvailable(t)
    /\ UnloadModel
    /\ ret' = [ret EXCEPT ![t] = "unloaded"]
    /\ pc' = [pc EXCEPT ![t] = "idle"]
    /\ UNCHANGED <<usage_count, last_used_age, is_loading, lock, monitor_thread,
                   stop_event, mon, lease, join, loads, released_age>>
    /\ UNCHANGED xvars
ForceUnloadTouches(t) ==
    /\ pc[t] = "fu_enter"
    /\ LockAvailable(t)
    /\ IF usage_count > 0
       THEN /\ ret' = [ret EXCEPT ![t] = "busy"]
            /\ UNCHANGED model
       ELSE /\ UnloadModel
            /\ ret' = [ret EXCEPT ![t] = "unloaded"]
    /\ last_used_age' = 0
    /\ pc' = [pc EXCEPT ![t] = "idle"]
    /\ UNCHANGED <<usage_count, is_loading, lock, monitor_thread,
                   stop_event, mon, lease, join, loads, released_age>>
    /\ UNCHANGED xvars
ForceUnload(t) ==
    /\ pc[t] = "fu_enter"
    /\ LockAvailable(t)
    /\ IF usage_count > 0
       THEN /\ ret' = [ret EXCEPT ![t] = "busy"]
            /\ UNCHANGED model
       ELSE /\ UnloadModel
            /\ ret' = [ret EXCEPT ![t] = "unloaded"]
    /\ pc' = [pc EXCEPT ![t] = "idle"]
    /\ UNCHANGED <<usage_count, last_used_age, is_loading, lock, monitor_thread,
                   stop_event, mon, lease, join, loads, released_age>>
    /\ UNCHANGED xvars

\* ------------------------------------------------- shutdown
ShutdownCallNoSignal(t) ==
    /\ pc[t] = "idle"
    /\ ret' = [ret EXCEPT ![t] = "none"]
    /\ pc' = [pc EXCEPT ![t] = IF monitor_thread # 0 THEN "sd_join" ELSE "sd_unload"]
    /\ UNCHANGED <<model, usage_count, last_used_age, is_loading, lock, monitor_thread,
                   stop_event, mon, lease, join, loads, released_age>>
    /\ UNCHANGED xvars

\* _stop_monitor, lines 277-278: nothing to stop, or the stop event is set.
ShutdownCall(t) ==
    /\ pc[t] = "idle"
    /\ ret' = [ret EXCEPT ![t] = "none"]
    /\ IF monitor_thread # 0
       THEN /\ stop_event' = TRUE
            /\ pc' = [pc EXCEPT ![t] = "sd_join"]
       ELSE /\ pc' = [pc EXCEPT ![t] = "sd_unload"]
            /\ UNCHANGED stop_event
    /\ UNCHANGED <<model, usage_count, last_used_age, is_loading, lock, monitor_thread,
                   mon, lease, join, loads, released_age>>
    /\ UNCHANGED xvars

\* Line 279: self._monitor_thread is read again and joined with a timeout.
SdJoinBegin(t) ==
    /\ pc[t] = "sd_join"
    /\ IF monitor_thread = 0
       THEN \* None has no join: AttributeError out of shutdown
            /\ pc' = [pc EXCEPT ![t] = "idle"]
            /\ ret' = [ret EXCEPT ![t] = "raised"]
            /\ UNCHANGED join
       ELSE /\ pc' = [pc EXCEPT ![t] = "sd_joining"]
            /\ join' = [target |-> monitor_thread, left |-> JoinTimeoutSec]
            /\ UNCHANGED ret
    /\ UNCHANGED <<model, usage_count, last_used_age, is_loading, lock, monitor_thread,
                   stop_event, mon, lease, loads, released_age>>
    /\ UNCHANGED xvars

\* join returns (the thread ended, or the timeout passed); line 280.
SdJoinEnd(t) ==
    /\ pc[t] = "sd_joining"
    /\ ~IsAlive(join.target) \/ join.left = 0
    /\ monitor_thread' = 0
    /\ join' = NoJoin
    /\ pc' = [pc EXCEPT ![t] = "sd_unload"]
    /\ UNCHANGED <<model, usage_count, last_used_age, is_loading, lock,
                   stop_event, mon, lease, ret, loads, released_age>>
    /\ UNCHANGED xvars

\* Lines 410-412.
SdUnload(t) ==
    /\ pc[t] = "sd_unload"
    /\ LockAvailable(t)
    /\ UnloadModel
    /\ pc' = [pc EXCEPT ![t] = "idle"]
    /\ ret' = [ret EXCEPT ![t] = "ok"]
    /\ UNCHANGED <<usage_count, last_used_age, is_loading, lock, monitor_thread,
                   stop_event, mon, lease, join, loads, released_age>>
    /\ UNCHANGED xvars

\* ------------------------------------------------- _monitor_timeout
\* The while test (line 242), then the start of the wait (line 244).
MonLoop(m) ==
    /\ mon[m].pc = "loop"
    /\ mon' = [mon EXCEPT ![m] =
                 IF stop_event THEN DeadThread
                 ELSE [pc |-> "wait", wake |-> CheckInterval, res |-> "none"]]
    /\ UNCHANGED <<model, usage_count, last_used_age, is_loading, lock, monitor_thread,
                   stop_event, pc, lease, ret, join, loads, released_age>>
    /\ UNCHANGED xvars

\* Event.wait(check_interval) returns: the event is set or the interval passed.
MonWake(m) ==
    /\ mon[m].pc = "wait"
    /\ stop_event \/ mon[m].wake = 0
    /\ mon' = [mon EXCEPT ![m] = [pc |-> "check", wake |-> 0, res |-> "none"]]
    /\ UNCHANGED <<model, usage_count, last_used_age, is_loading, lock, monitor_thread,
                   stop_event, pc, lease, ret, join, loads, released_age>>
    /\ UNCHANGED xvars

\* Line 246.
MonCheck(m) ==
    /\ mon[m].pc = "check"
    /\ mon' = [mon EXCEPT ![m] =
                 IF stop_event THEN DeadThread
                 ELSE [pc |-> "lock", wake |-> 0, res |-> "none"]]
    /\ UNCHANGED <<model, usage_count, last_used_age, is_loading, lock, monitor_thread,
                   stop_event, pc, lease, ret, join, loads, released_age>>
    /\ UNCHANGED xvars

\* Lines 250-260, one tick under the lock; res records the branch it took.
TickOutcome ==
    IF model = 0 THEN "unloaded"
    ELSE IF usage_count > 0 THEN "busy"
    ELSE IF last_used_age >= TimeoutSec THEN "evicted"
    ELSE "fresh"

MonTickOnce(m) ==
    /\ mon[m].pc = "lock"
    /\ lock = 0
    /\ IF TickOutcome = "evicted" THEN UnloadModel ELSE UNCHANGED model
    /\ mon' = [mon EXCEPT ![m] = DeadThread]
    /\ UNCHANGED <<usage_count, last_used_age, is_loading, lock, monitor_thread,
                   stop_event, pc, lease, ret, join, loads, released_age>>
    /\ UNCHANGED xvars

MonTickNoUsageCheck(m) ==
    /\ mon[m].pc = "lock"
    /\ lock = 0
    /\ model' = (IF model # 0 /\ last_used_age >= TimeoutSec THEN 0 ELSE model)
    /\ mon' = [mon EXCEPT ![m] = [pc |-> "loop", wake |-> 0, res |-> TickOutcome]]
    /\ UNCHANGED <<usage_count, last_used_age, is_loading, lock, monitor_thread,
                   stop_event, pc, lease, ret, join, loads, released_age>>
    /\ UNCHANGED xvars
MonTick(m) ==
    /\ mon[m].pc = "lock"
    /\ lock = 0
    /\ IF TickOutcome = "evicted" THEN UnloadModel ELSE UNCHANGED model
    /\ mon' = [mon EXCEPT ![m] = [pc |-> "loop", wake |-> 0, res |-> TickOutcome]]
    /\ UNCHANGED <<usage_count, last_used_age, is_loading, lock, monitor_thread,
                   stop_event, pc, lease, ret, join, loads, released_age>>
    /\ UNCHANGED xvars

\* ------------------------------------------------- the program
WorkerStep(t) ==
    \/ GetModelCall(t) \/ GmEnter(t) \/ GmLoadOk(t) \/ GmLoadFail(t) \/ GmCleanup(t)
    \/ GmRelease(t)

AdminStep(t) ==
    \/ ForceLoad(t) \/ FlLoadOk(t) \/ FlLoadFail(t)
    \/ ForceUnloadCall(t) \/ ForceUnload(t)

CloserStep(t) == ShutdownCall(t) \/ SdJoinBegin(t) \/ SdJoinEnd(t) \/ SdUnload(t)

MonitorStep(m) == MonLoop(m) \/ MonWake(m) \/ MonCheck(m) \/ MonTick(m)

\* The service in operation: leases, the control calls, the monitor, the clock.
Next ==
    \/ Tick
    \/ \E t \in Workers : WorkerStep(t)
    \/ AdminStep(Admin)
    \/ \E m \in MonIds : MonitorStep(m)

Spec == Init /\ [][Next]_vars

\* The same with shutdown.
NextAll == Next \/ CloserStep(Closer)

SpecAll == Init /\ [][NextAll]_vars

\* A monitor thread that can take a step: it is not waiting out its interval
\* and not blocked on the manager's lock.
MonitorRunnable(m) ==
    \/ mon[m].pc \in {"loop", "check"}
    \/ mon[m].pc = "wait" /\ (stop_event \/ mon[m].wake = 0)
    \/ mon[m].pc = "lock" /\ lock = 0

\* The clock advances only when no monitor thread can run: next to the 5 s of
\* join's timeout a runnable thread's step takes no time, a load, a lease
\* body, a wait and a blocked lock acquisition do.
TickTimely == Tick /\ \A m \in MonIds : ~MonitorRunnable(m)

\* The service with shutdown, on that clock.
NextShutdown ==
    \/ TickTimely
    \/ \E t \in Workers : WorkerStep(t)
    \/ AdminStep(Admin)
    \/ CloserStep(Closer)
    \/ \E m \in MonIds : MonitorStep(m)

SpecShutdown == Init /\ [][NextShutdown]_vars

\* Shutdown of a manager at rest: shutdown starts when no call is under way,
\* and no call starts until it has returned.
CallersIdle == \A t \in Workers \cup {Admin} : pc[t] = "idle"

NextQuiet ==
    \/ TickTimely
    \/ pc[Closer] = "idle" /\ \E t \in Workers : WorkerStep(t)
    \/ pc[Closer] = "idle" /\ AdminStep(Admin)
    \/ CallersIdle /\ CloserStep(Closer)
    \/ \E m \in MonIds : MonitorStep(m)

SpecQuiet == Init /\ [][NextQuiet]_vars

\* ------------------------------------------------------------------------
\* Every call comes back.  get_status (lines 345-369) is a read under the
\* lock; the other calls are the ones above.
GetStatusCall(t) ==
    /\ pc[t] = "idle"
    /\ pc' = [pc EXCEPT ![t] = "gs_enter"]
    /\ ret' = [ret EXCEPT ![t] = "none"]
    /\ UNCHANGED <<model, usage_count, last_used_age, is_loading, lock, monitor_thread,
                   stop_event, mon, lease, join, loads, released_age>>
    /\ UNCHANGED xvars

GetStatus(t) ==
    /\ pc[t] = "gs_enter"
    /\ LockAvailable(t)
    /\ pc' = [pc EXCEPT ![t] = "idle"]
    /\ ret' = [ret EXCEPT ![t] = "status"]
    /\ UNCHANGED <<model, usage_count, last_used_age, is_loading, lock, monitor_thread,
                   stop_event, mon, lease, join, loads, released_age>>
    /\ UNCHANGED xvars

StatusStep(t) == GetStatusCall(t) \/ GetStatus(t)

\* One thread takes leases, one makes the control calls and asks for the
\* status, one shuts down; each call contends for the lock with the others
\* and with the monitor threads.
Lessee == 1

NextLive ==
    \/ TickTimely
    \/ WorkerStep(Lessee)
    \/ AdminStep(Admin)
    \/ StatusStep(Admin)
    \/ CloserStep(Closer)
    \/ \E m \in MonIds : MonitorStep(m)

\* A thread that is inside a call and can take its next step takes it.  No
\* call has to be made; a load step and a lease body end, the monitor
\* threads run and time passes.
Underway(t) == pc[t] # "idle"
Proceeds(t) ==
    /\ Underway(t)
    /\ WorkerStep(t) \/ AdminStep(t) \/ StatusStep(t) \/ CloserStep(t)

Callers == {Lessee, Admin, Closer}

SpecLive ==
    /\ Init
    /\ [][NextLive]_vars
    /\ WF_vars(TickTimely)
    /\ \A m \in MonIds : WF_vars(MonitorStep(m))
    /\ \A t \in Callers : WF_vars(Proceeds(t))

\* Leases and pre-warming with the monitor as the only unloader; the clock
\* advances and each monitor thread is scheduled.
PrewarmStep(t) == ForceLoad(t) \/ FlLoadOk(t) \/ FlLoadFail(t)

NextIdle ==
    \/ Tick
    \/ \E t \in Workers : WorkerStep(t)
    \/ PrewarmStep(Admin)
    \/ \E m \in MonIds : MonitorStep(m)

SpecIdle ==
    /\ Init
    /\ [][NextIdle]_vars
    /\ WF_vars(Tick)
    /\ \A m \in MonIds : WF_vars(MonitorStep(m))

\* Nested leases: a worker inside a lease body calls get_model again
\* (lines 320-330 run a second time on the same thread).
NestCall(t) ==
    /\ pc[t] = "gm_yield"
    /\ outer[t] = 0
    /\ outer' = [outer EXCEPT ![t] = 1]
    /\ pc' = [pc EXCEPT ![t] = "gm_enter"]
    /\ ret' = [ret EXCEPT ![t] = "none"]
    /\ UNCHANGED <<model, usage_count, last_used_age, is_loading, lock, monitor_thread,
                   stop_event, mon, lease, join, loads, released_age>>
    /\ UNCHANGED besidesNest

\* The inner call's finally (lines 331-335), after its body or after its
\* failed load; the thread is back in the outer lease's body.
NestFinally(t) ==
    /\ pc[t] \in {"gm_yield", "gm_cleanup"}
    /\ outer[t] = 1
    /\ LockAvailable(t)
    /\ usage_count' = Max(0, usage_count - 1)
    /\ last_used_age' = 0
    /\ released_age' = IF pc[t] = "gm_yield" THEN 0 ELSE released_age
    /\ outer' = [outer EXCEPT ![t] = 0]
    /\ pc' = [pc EXCEPT ![t] = "gm_yield"]
    /\ UNCHANGED <<model, is_loading, lock, monitor_thread, stop_event, mon, lease,
                   ret, join, loads>>
    /\ UNCHANGED besidesNest

NestedStep(t) ==
    \/ GetModelCall(t) \/ GmEnter(t) \/ GmLoadOk(t) \/ GmLoadFail(t)
    \/ outer[t] = 0 /\ GmCleanup(t)
    \/ outer[t] = 0 /\ GmRelease(t)
    \/ NestCall(t)
    \/ NestFinally(t)

NextNested ==
    \/ Tick
    \/ \E t \in Workers : NestedStep(t)
    \/ \E m \in MonIds : MonitorStep(m)

SpecNested == Init /\ [][NextNested]_allvars

\* ------------------------------------------------------------------------
\* MultiModelManager (src/src/multi_model_manager.py).  A model name is a
\* sequence of pieces: the vendor prefix "nvidia/" zero or more times, then
\* the rest of the string.
Vendor == "nvidia/"
Canary == <<"canary-1b-v2">>
Parakeet == <<"parakeet-tdt-0.6b-v3">>

\* The keys of MODEL_CONFIGS.
MODEL_CONFIGS == {Canary, Parakeet}

\* The keys of alias_map and what they stand for.
AliasKeys == {<<"canary">>, <<"canary-1b">>, <<"parakeet">>, <<"parakeet-tdt">>}
alias_map == [a \in AliasKeys |-> IF a \in {<<"canary">>, <<"canary-1b">>} THEN Canary
                                                                          ELSE Parakeet]

\* model_name.startswith("nvidia/")
StartsWithVendor(name) == Len(name) > 0 /\ name[1] = Vendor

\* _normalize_model_name: drop one leading "nvidia/", then alias_map.get(name, name).
Normalize(name) ==
    LET stripped == IF StartsWithVendor(name) THEN Tail(name) ELSE name
    IN  IF stripped \in AliasKeys THEN alias_map[stripped] ELSE stripped

\* The names a request or ENABLED_MODELS can carry: the canonical names, the
\* aliases, a name of no model, each bare and with the vendor prefix, and a
\* name with the prefix twice.
BareNames == MODEL_CONFIGS \cup AliasKeys \cup {<<"whisper">>}
RequestNames == BareNames \cup {<<Vendor>> \o n : n \in BareNames}
                          \cup {<<Vendor, Vendor>> \o Canary}
EnabledChoices == SUBSET {Canary, Parakeet, <<"canary">>, <<"whisper">>}

\* ModelManager.__init__(self, model_path, model_name, timeout_sec, use_fp16)
\* and the keywords _initialize_managers passes to it.
InitParams == {"model_path", "model_name", "timeout_sec", "use_fp16"}
InitKeywords == {"model_path", "model_name", "nemo_filename", "timeout_sec", "use_fp16"}

\* The methods of ModelManager a caller can name.
ManagerMethods == {"ensure_model_loaded", "get_model", "get_status", "force_unload",
                   "force_load", "shutdown"}

\* _initialize_managers: names outside MODEL_CONFIGS are skipped; for a name
\* in it ModelManager(...) is called, which raises TypeError on a keyword the
\* constructor does not take.
Constructs(enabled) == \A n \in enabled \cap MODEL_CONFIGS : InitKeywords \subseteq InitParams

\* get_multi_model_manager when _multi_manager is None: MultiModelManager()
\* reads ENABLED_MODELS and builds the table; if the constructor raises, the
\* global stays None.
RouterBuild(enabled) ==
    /\ router = "none"
    /\ enabled_models' = enabled
    /\ IF Constructs(enabled)
       THEN /\ router' = "ready"
            /\ managers' = [n \in enabled \cap MODEL_CONFIGS |-> n]
            /\ rq' = [op |-> "new", name |-> <<>>, res |-> "ok"]
       ELSE /\ router' = "none"
            /\ managers' = <<>>
            /\ rq' = [op |-> "new", name |-> <<>>, res |-> "TypeError"]

RouterNew(enabled) == RouterBuild(enabled) /\ UNCHANGED <<vars, besidesRouter>>

\* get_model_manager(name): the manager under the normalized name, or None.
Found(name) == Normalize(name) \in DOMAIN managers

RouterResolve(name) ==
    /\ router = "ready"
    /\ rq' = [op |-> "get_model_manager", name |-> name,
              res |-> IF Found(name) THEN "manager" ELSE "None"]
    /\ UNCHANGED <<enabled_models, router, managers, vars, besidesRouter>>

\* get_model(name): ValueError when get_model_manager gave None, else the
\* manager's own get_model.
RouterGetModelCreates(name) ==
    /\ router = "ready"
    /\ managers' = [n \in DOMAIN managers \cup {Normalize(name)} |-> n]
    /\ rq' = [op |-> "get_model", name |-> name, res |-> "manager.get_model"]
    /\ UNCHANGED <<enabled_models, router, vars, besidesRouter>>

RouterGetModel(name) ==
    /\ router = "ready"
    /\ rq' = [op |-> "get_model", name |-> name,
              res |-> IF Found(name) THEN "manager.get_model" ELSE "ValueError"]
    /\ UNCHANGED <<enabled_models, router, managers, vars, besidesRouter>>

\* load_model(name) / unload_model(name): False when get_model_manager gave
\* None, else manager.load_model() / manager.unload_model(), which raise
\* AttributeError when ModelManager has no method of that name.
Delegate(method) == IF method \in ManagerMethods THEN "manager." \o method
                                                  ELSE "AttributeError"

RouterLoadModel(name) ==
    /\ router = "ready"
    /\ rq' = [op |-> "load_model", name |-> name,
              res |-> IF Found(name) THEN Delegate("load_model") ELSE "False"]
    /\ UNCHANGED <<enabled_models, router, managers, vars, besidesRouter>>

RouterUnloadModel(name) ==
    /\ router = "ready"
    /\ rq' = [op |-> "unload_model", name |-> name,
              res |-> IF Found(name) THEN Delegate("unload_model") ELSE "False"]
    /\ UNCHANGED <<enabled_models, router, managers, vars, besidesRouter>>

\* get_status(name): the error entry when get_model_manager gave None.
RouterStatus(name) ==
    /\ router = "ready"
    /\ rq' = [op |-> "get_status", name |-> name,
              res |-> IF Found(name) THEN "manager.get_status" ELSE "error"]
    /\ UNCHANGED <<enabled_models, router, managers, vars, besidesRouter>>

\* shutdown_multi_model_manager: shutdown() calls each manager's shutdown and
\* clears the table, then the global is set to None.
RouterShutdown ==
    /\ router = "ready"
    /\ managers' = <<>>
    /\ router' = "none"
    /\ rq' = [op |-> "shutdown", name |-> <<>>,
              res |-> IF DOMAIN managers = {} THEN "ok" ELSE "manager.shutdown"]
    /\ UNCHANGED <<enabled_models, vars, besidesRouter>>

NextRouter ==
    \/ \E enabled \in EnabledChoices : RouterNew(enabled)
    \/ \E name \in RequestNames : RouterResolve(name)
    \/ \E name \in RequestNames : RouterGetModel(name)
    \/ \E name \in RequestNames : RouterLoadModel(name)
    \/ \E name \in RequestNames : RouterUnloadModel(name)
    \/ \E name \in RequestNames : RouterStatus(name)
    \/ RouterShutdown

SpecRouter == Init /\ [][NextRouter]_allvars

\* ------------------------------------------------------------------------
\* A transcription request (main.py lines 402-465, engine.py lines 54-57,
\* 109-116, 325-337).  The handler asks the MultiModelManager singleton for
\* its enabled names, rejects a model name that is not one of them, then
\* takes the engine from get_transcription_engine(model_name=model) and
\* transcribes under the lease of the engine's own manager.

\* def get_transcription_engine() and the keywords the handler passes to it.
EngineParams == {}
EngineKeywords == {"model_name"}
EngineAccepts == EngineKeywords \subseteq EngineParams

\* TranscriptionEngine.__init__: self.model_manager = get_model_manager()
EngineManager == "_model_manager"

TranscriptionCall(name) ==
    /\ req.pc \in {"idle", "done"}
    /\ req' = [pc |-> "called", name |-> name, status |-> 0, manager |-> "None"]
    /\ UNCHANGED <<rvars, vars, besidesRequest>>

\* The handler's answer once get_multi_model_manager() has returned or raised.
Answer(name, ready, enabled) ==
    IF ~ready THEN [status |-> 500, manager |-> "None"]
    ELSE IF name \notin enabled THEN [status |-> 400, manager |-> "None"]
    ELSE IF ~EngineAccepts THEN [status |-> 500, manager |-> "None"]
    ELSE [status |-> 200, manager |-> EngineManager]

\* ENABLED_MODELS is read when get_multi_model_manager() has to construct.
TranscriptionServe(enabled) ==
    /\ req.pc = "called"
    /\ IF router = "none" THEN RouterBuild(enabled) ELSE UNCHANGED rvars
    /\ LET a == Answer(req.name, router' = "ready", DOMAIN managers')
       IN req' = [pc |-> "done", name |-> req.name, status |-> a.status,
                  manager |-> a.manager]
    /\ UNCHANGED <<vars, besidesRequest>>

\* The lifespan's shutdown, after the requests.
ServiceShutdown ==
    /\ req.pc \in {"idle", "done"}
    /\ RouterShutdown

NextRequest ==
    \/ \E enabled \in EnabledChoices : RouterNew(enabled)
    \/ \E name \in RequestNames : TranscriptionCall(name)
    \/ \E enabled \in EnabledChoices : TranscriptionServe(enabled)
    \/ ServiceShutdown

SpecRequest == Init /\ [][NextRequest]_allvars

\* ------------------------------------------------------------------------
\* The unload, statement by statement.  The three callers of _unload_model
\* take the lock (lines 250, 378, 410), make their own test, call
\* _unload_model, which re-enters the RLock and tests again (lines 205-211),
\* and only then drops the handle and cleans up (lines 217-224).
ULockAlways(u) == TRUE
ULock(u) == lock = 0

\* What the rest of the manager's fields do while an unloader moves.
UFrame == UNCHANGED <<usage_count, last_used_age, is_loading, monitor_thread, stop_event,
                      mon, pc, lease, ret, join, loads, released_age, besidesUnload>>

\* `with self._lock:` of the caller.
UEnter(u) ==
    /\ un[u].pc = "idle"
    /\ ULock(u)
    /\ lock' = u
    /\ un' = [un EXCEPT ![u] = [pc |-> "outer", seen |-> 0, did |-> "none"]]
    /\ UNCHANGED model
    /\ UFrame

\* The caller's own test: the monitor goes on when a model is loaded, unused
\* and (by its clock) timed out; force_unload when usage_count is 0;
\* shutdown when a model is loaded.
UCallerGoesOn(u) ==
    IF u = UMonitor THEN model # 0 /\ usage_count = 0
    ELSE IF u = UAdmin THEN usage_count = 0
    ELSE model # 0

UOuter(u) ==
    /\ un[u].pc = "outer"
    /\ \/ /\ UCallerGoesOn(u)
          /\ un' = [un EXCEPT ![u].pc = "inner"]
       \/ /\ ~UCallerGoesOn(u) \/ u = UMonitor
          /\ un' = [un EXCEPT ![u].pc = "leave", ![u].did = "skipped"]
    /\ UNCHANGED <<model, lock>>
    /\ UFrame

\* _unload_model's tests (lines 206-211).
UInner(u) ==
    /\ un[u].pc = "inner"
    /\ un' = IF model = 0 \/ usage_count > 0
             THEN [un EXCEPT ![u].pc = "leave", ![u].did = "skipped"]
             ELSE [un EXCEPT ![u].pc = "drop", ![u].seen = model]
    /\ UNCHANGED <<model, lock>>
    /\ UFrame

\* del self._model; self._model = None; the GPU cache is emptied.
UDrop(u) ==
    /\ un[u].pc = "drop"
    /\ model' = 0
    /\ un' = [un EXCEPT ![u].pc = "leave", ![u].did = "dropped"]
    /\ UNCHANGED lock
    /\ UFrame

\* The end of the caller's with block.
ULeave(u) ==
    /\ un[u].pc = "leave"
    /\ lock' = 0
    /\ un' = [un EXCEPT ![u].pc = "idle"]
    /\ UNCHANGED model
    /\ UFrame

UnloaderStep(u) == UEnter(u) \/ UOuter(u) \/ UInner(u) \/ UDrop(u) \/ ULeave(u)

\* Leases load the model and hold it; the three unloaders come at any time.
NextUnload ==
    \/ \E t \in Workers : WorkerStep(t)
    \/ \E u \in Unloaders : UnloaderStep(u)

SpecUnload == Init /\ [][NextUnload]_allvars

\* ------------------------------------------------------------------------
\* Pre-warming: a fresh manager on which only the control calls are made and
\* no lease is taken, with a stopwatch on the time since the load finished.
PrewarmTick ==
    /\ Elapse
    /\ loaded_age' = Min(loaded_age + TickSec, TimeoutSec)
    /\ UNCHANGED besidesPrewarm

PrewarmLoadOk(t) ==
    /\ FlLoaded(t)
    /\ loaded_age' = 0
    /\ UNCHANGED besidesPrewarm

NextPrewarm ==
    \/ PrewarmTick
    \/ ForceLoad(Admin) \/ PrewarmLoadOk(Admin) \/ FlLoadFail(Admin)
    \/ ForceUnloadCall(Admin) \/ ForceUnload(Admin)
    \/ \E m \in MonIds : MonitorStep(m)

SpecPrewarm == Init /\ [][NextPrewarm]_allvars

\* ------------------------------------------------------------------------
\* The module's singleton (lines 417-448).  get_model_manager tests the
\* global outside _instance_lock, constructs under the lock when it is None,
\* and reads the global once more to return it.  shutdown_model_manager
\* clears it under the lock.  Only the global is followed here; what
\* shutdown() does inside the instance is in NextShutdown.
MaxShutdowns == 2

SetAcc(t, p, b, e, g) ==
    acc' = [acc EXCEPT ![t] = [pc |-> p, began |-> b, ended |-> e, got |-> g]]

\* A thread calls get_model_manager().
GetManagerCall(t) ==
    /\ acc[t].pc \in {"idle", "done"}
    /\ SetAcc(t, "test", shutdowns, shutdowns, None)
    /\ UNCHANGED <<model_manager, instance_lock, instances, shutdowns, vars,
                   besidesSingleton>>

\* if _model_manager is None:  (line 430)
GetManagerTest(t) ==
    /\ acc[t].pc = "test"
    /\ SetAcc(t, IF model_manager = None THEN "lock" ELSE "return",
              acc[t].began, acc[t].ended, None)
    /\ UNCHANGED <<model_manager, instance_lock, instances, shutdowns, vars,
                   besidesSingleton>>

\* with _instance_lock:  (line 431)
GetManagerLock(t) ==
    /\ acc[t].pc = "lock"
    /\ instance_lock = 0
    /\ instance_lock' = t
    /\ SetAcc(t, "locked", acc[t].began, acc[t].ended, None)
    /\ UNCHANGED <<model_manager, instances, shutdowns, vars, besidesSingleton>>

\* if _model_manager is None: _model_manager = ModelManager()  (lines 432-433)
GetManagerCreate(t) ==
    /\ acc[t].pc = "locked"
    /\ IF model_manager = None
       THEN /\ instances' = instances + 1
            /\ model_manager' = instances + 1
       ELSE UNCHANGED <<instances, model_manager>>
    /\ instance_lock' = 0
    /\ SetAcc(t, "return", acc[t].began, acc[t].ended, None)
    /\ UNCHANGED <<shutdowns, vars, besidesSingleton>>

\* return _model_manager  (line 435)
GetManagerReturn(t) ==
    /\ acc[t].pc = "return"
    /\ SetAcc(t, "done", acc[t].began, shutdowns, model_manager)
    /\ UNCHANGED <<model_manager, instance_lock, instances, shutdowns, vars,
                   besidesSingleton>>

\* shutdown_model_manager: with _instance_lock:  (line 445)
ShutdownManagerLock ==
    /\ shutdowns < MaxShutdowns
    /\ instance_lock = 0
    /\ instance_lock' = Closer
    /\ UNCHANGED <<model_manager, instances, shutdowns, acc, vars, besidesSingleton>>

\* if _model_manager is not None: shutdown it, _model_manager = None
\* (lines 446-448)
ShutdownManagerClear ==
    /\ instance_lock = Closer
    /\ model_manager' = None
    /\ instance_lock' = 0
    /\ shutdowns' = shutdowns + 1
    /\ UNCHANGED <<instances, acc, vars, besidesSingleton>>

NextSingleton ==
    \/ \E t \in Workers :
          \/ GetManagerCall(t) \/ GetManagerTest(t) \/ GetManagerLock(t)
          \/ GetManagerCreate(t) \/ GetManagerReturn(t)
    \/ ShutdownManagerLock
    \/ ShutdownManagerClear

SpecSingleton == Init /\ [][NextSingleton]_allvars

\* ------------------------------------------------------------------------
\* Where the load step takes the model from (lines 92-173).  A path or a
\* name is the sequence of its pieces.
ModelPath == "models"
NemoFiles == {"canary-1b-v2.nemo", "parakeet-tdt-0.6b-v3.nemo"}
ConfigFiles == {"model_config.yaml", "config.json"}
SavedFile == "canary-1b-v2.nemo"
HfNames == {<<Vendor>> \o n : n \in MODEL_CONFIGS}

\* What can be at the model path when a load begins.
Storages ==
    {[at |-> "nothing", nemo |-> {}, config |-> {}],
     [at |-> "file", nemo |-> {}, config |-> {}]}
    \cup [at : {"dir"}, nemo : SUBSET NemoFiles, config : SUBSET ConfigFiles]

\* _check_local_model_exists
CheckLocalModelExists ==
    /\ storage.at = "dir"
    /\ storage.nemo # {} \/ storage.config # {}

\* model_source.endswith(".nemo")
EndsWithNemo(source) == source[Len(source)] \in NemoFiles

InitSource ==
    /\ Constructed
    /\ NestAtRest /\ RouterAtRest /\ BAtRest /\ IntervalAtRest /\ PrewarmAtRest /\ UnloadAtRest /\ SingletonAtRest /\ RequestAtRest
    /\ storage \in Storages
    /\ model_name \in HfNames
    /\ model_source = <<>>
    /\ loaded_by = "none"

\* _get_model_source, from _load_model (line 151).
GetModelSourceRemote ==
    /\ model_source = <<>>
    /\ model_source' = model_name
    /\ UNCHANGED <<storage, model_name, loaded_by, vars, besidesSource>>

GetModelSource ==
    /\ model_source = <<>>
    /\ IF CheckLocalModelExists
       THEN IF storage.nemo # {}
            THEN \E f \in storage.nemo : model_source' = <<ModelPath, f>>
            ELSE model_source' = <<ModelPath>>
       ELSE model_source' = model_name
    /\ UNCHANGED <<storage, model_name, loaded_by, vars, besidesSource>>

\* The rest of _load_model's choice (lines 157-173): restore_from for a
\* .nemo source; else from_pretrained, then makedirs and save_to, whose
\* failure is only logged.  The download itself may fail.
LoadFromSource ==
    /\ model_source # <<>>
    /\ loaded_by = "none"
    /\ IF EndsWithNemo(model_source)
       THEN /\ loaded_by' = "restore_from"
            /\ UNCHANGED storage
       ELSE /\ loaded_by' = "from_pretrained"
            /\ \/ UNCHANGED storage
               \/ /\ storage.at # "file"
                  /\ storage' = [storage EXCEPT !.at = "dir"]
               \/ /\ storage.at # "file"
                  /\ storage' = [storage EXCEPT !.at = "dir", !.nemo = @ \cup {SavedFile}]
    /\ UNCHANGED <<model_name, model_source, vars, besidesSource>>

NextSource == GetModelSource \/ LoadFromSource

SpecSource == InitSource /\ [][NextSource]_allvars

\* ------------------------------------------------------------------------
\* Two managers on one base path, as _initialize_managers configures them
\* (multi_model_manager.py lines 105-113): each gets the shared
\* models_base_path and its own hf_name.  Their load steps follow one
\* another on the same storage.

\* config["nemo_filename"] and config["hf_name"] of a key of MODEL_CONFIGS.
NemoFilename(key) == key[1] \o ".nemo"
HfName(key) == <<Vendor>> \o key

\* The manager of another enabled model comes to load, after the load
\* before it has finished.
NextManagerLoads(key) ==
    /\ loaded_by # "none"
    /\ model_name' = HfName(key)
    /\ model_source' = <<>>
    /\ loaded_by' = "none"
    /\ UNCHANGED <<storage, vars, besidesSource>>

NextShared ==
    \/ GetModelSource
    \/ LoadFromSource
    \/ \E key \in MODEL_CONFIGS : NextManagerLoads(key)

SpecShared == InitSource /\ [][NextShared]_allvars

\* ------------------------------------------------------------------------
\* The monitor's check interval for any configured timeout (lines 238-247).
\* check_interval = min(30, self.timeout_sec // 2)
CheckIntervalOf(ts) == Min(MaxCheckInterval, ts \div 2)

\* A manager constructed with any timeout_sec from 1 up.
InitInterval ==
    /\ Constructed
    /\ NestAtRest /\ RouterAtRest /\ BAtRest /\ SourceAtRest /\ PrewarmAtRest /\ UnloadAtRest /\ SingletonAtRest /\ RequestAtRest
    /\ timeout_sec \in 1..MaxTimeoutSec
    /\ check_interval = None
    /\ waited = None

\* _monitor_timeout starts: line 238.
MonitorEntry ==
    /\ check_interval = None
    /\ check_interval' = CheckIntervalOf(timeout_sec)
    /\ UNCHANGED <<timeout_sec, waited, vars, besidesInterval>>

\* self._monitor_stop_event.wait(timeout=check_interval) with the event not
\* set: the thread sleeps check_interval seconds, then comes to its tick.
MonitorWait ==
    /\ check_interval # None
    /\ waited' = check_interval
    /\ UNCHANGED <<timeout_sec, check_interval, vars, besidesInterval>>

NextInterval == MonitorEntry \/ MonitorWait

SpecInterval == InitInterval /\ [][NextInterval]_allvars

\* ------------------------------------------------------------------------
\* Two managers.  Every ModelManager makes its own RLock in __init__
\* (line 75) and its methods take no other lock, so a second manager is a
\* second copy of the fields, lock included.  Its monitor thread is started
\* by its load; its timeout does not run out here.
InFlight == {t \in Threads : pc[t] \in {"gm_loading", "fl_loading"}}

BSharedLockAvailable(t) ==
    /\ lock = 0 \/ lock = t
    /\ mgr_b.lock = 0 \/ mgr_b.lock = t
BLockAvailable(t) == mgr_b.lock = 0 \/ mgr_b.lock = t

\* The call began and returns within the load now in flight on the first manager.
BReturns(op) ==
    b_done' = IF InFlight # {} /\ mgr_b.since = loads
              THEN [b_done EXCEPT ![op] = loads]
              ELSE b_done

BCall(op) ==
    /\ mgr_b.pc = "idle"
    /\ mgr_b' = [mgr_b EXCEPT !.pc = op, !.ret = "none",
                              !.since = IF InFlight # {} THEN loads ELSE 0]
    /\ UNCHANGED <<b_done, vars, besidesB>>

\* get_model on the second manager (lines 322-328), as GmEnter.
BGmEnter ==
    /\ mgr_b.pc = "get_model"
    /\ BLockAvailable(Other)
    /\ IF mgr_b.model # 0 \/ mgr_b.is_loading
       THEN /\ mgr_b' = [mgr_b EXCEPT !.usage_count = @ + 1, !.pc = "gm_yield"]
            /\ BReturns("get_model")
       ELSE /\ mgr_b' = [mgr_b EXCEPT !.is_loading = TRUE, !.lock = Other,
                                      !.pc = "gm_loading"]
            /\ UNCHANGED b_done
    /\ UNCHANGED <<vars, besidesB>>

BGmLoadOk ==
    /\ mgr_b.pc = "gm_loading"
    /\ mgr_b' = [mgr_b EXCEPT !.model = 1, !.monitor = TRUE, !.is_loading = FALSE,
                              !.lock = 0, !.usage_count = @ + 1, !.pc = "gm_yield"]
    /\ BReturns("get_model")
    /\ UNCHANGED <<vars, besidesB>>

BGmLoadFail ==
    /\ mgr_b.pc = "gm_loading"
    /\ mgr_b' = [mgr_b EXCEPT !.is_loading = FALSE, !.lock = 0, !.pc = "gm_cleanup"]
    /\ UNCHANGED <<b_done, vars, besidesB>>

\* get_model's finally, after the body or after a failed load (lines 331-335).
BGmFinally ==
    /\ mgr_b.pc \in {"gm_yield", "gm_cleanup"}
    /\ BLockAvailable(Other)
    /\ mgr_b' = [mgr_b EXCEPT !.usage_count = Max(0, @ - 1), !.pc = "idle",
                              !.ret = IF mgr_b.pc = "gm_yield" THEN "ok" ELSE "raised"]
    /\ UNCHANGED <<b_done, vars, besidesB>>

\* get_status (lines 345-369): a read under the lock.
BGetStatus ==
    /\ mgr_b.pc = "get_status"
    /\ BLockAvailable(Other)
    /\ mgr_b' = [mgr_b EXCEPT !.pc = "idle",
                              !.ret = IF mgr_b.model # 0 THEN "loaded" ELSE "not_loaded"]
    /\ BReturns("get_status")
    /\ UNCHANGED <<vars, besidesB>>

\* force_unload (lines 378-384).
BForceUnload ==
    /\ mgr_b.pc = "force_unload"
    /\ BLockAvailable(Other)
    /\ mgr_b' = IF mgr_b.usage_count > 0
                THEN [mgr_b EXCEPT !.pc = "idle", !.ret = "busy"]
                ELSE [mgr_b EXCEPT !.pc = "idle", !.ret = "unloaded", !.model = 0]
    /\ BReturns("force_unload")
    /\ UNCHANGED <<vars, besidesB>>

BStep ==
    \/ \E op \in BOps : BCall(op)
    \/ BGmEnter \/ BGmLoadOk \/ BGmLoadFail \/ BGmFinally
    \/ BGetStatus
    \/ BForceUnload

\* Control calls, monitor and clock of the first manager, and the calls on
\* the second.
NextTwo ==
    \/ Tick
    \/ AdminStep(Admin)
    \/ \E m \in MonIds : MonitorStep(m)
    \/ BStep

\* The caller of the second manager keeps running; nothing is assumed of
\* the first manager's threads.
SpecTwo == Init /\ [][NextTwo]_allvars /\ WF_allvars(BStep)

\* A burst of leases on a fresh manager: the load step succeeds, and the
\* manager is never left idle for timeout_sec while the burst lasts.
TickWithin ==
    /\ Tick
    /\ model = 0 \/ usage_count > 0 \/ last_used_age' < TimeoutSec

FirstStep(t) == GetModelCall(t) \/ GmEnter(t) \/ GmLoadOk(t) \/ GmRelease(t)

NextFirst ==
    \/ TickWithin
    \/ \E t \in Workers : FirstStep(t)
    \/ \E m \in MonIds : MonitorStep(m)

SpecFirst ==
    /\ Init
    /\ [][NextFirst]_vars
    /\ \A t \in Workers : WF_vars(GmEnter(t) \/ GmLoadOk(t))

TypeOK ==
    /\ model \in {0} \cup Instances
    /\ usage_count \in 0..NWorkers
    /\ lock \in {0} \cup Threads
    /\ monitor_thread \in {0} \cup MonIds
    /\ loads \in 0..MaxLoads

\* ------------------------------------------------- properties

Holding == {t \in Workers : pc[t] = "gm_yield"}
MonitorTicked == \E m \in MonIds : mon[m].pc = "lock" /\ mon'[m].pc = "loop"
Evicts == MonitorTicked /\ model # 0 /\ model' = 0
ForceUnloadReturns(t) == pc[t] = "fu_enter" /\ pc'[t] = "idle"
LeaseReleased(t) == pc[t] = "gm_yield" /\ pc'[t] = "idle"

\* C1: concurrent first leases on a fresh manager run the load step exactly
\* once, every caller that asked for a lease gets one, and every lease is on
\* the one loaded instance.
C1_Safe ==
    /\ loads <= 1
    /\ \A t \in Holding : loads = 1 /\ model # 0 /\ lease[t] = model
C1_LoadOnce ==
    /\ []C1_Safe
    /\ \A t \in Workers : (pc[t] = "gm_enter") ~> (pc[t] = "gm_yield")
C1_Witness == Holding = Workers /\ loads = 1

\* C2: at most one load step is in flight, it runs under the manager's lock,
\* and while it runs no other caller starts a load or gets past the lock.
C2_OneLoad ==
    /\ Cardinality(InFlight) <= 1
    /\ is_loading <=> InFlight # {}
    /\ \A t \in InFlight : lock = t /\ model = 0
C2_Waits ==
    InFlight # {} =>
        \A t \in Threads \ InFlight :
            /\ pc'[t] \notin {"gm_loading", "fl_loading", "gm_yield"} \/ pc'[t] = pc[t]
            /\ ret'[t] = ret[t] \/ (pc[t] = "idle" /\ ret'[t] = "none")
C2_AtMostOneLoad == []C2_OneLoad /\ [][C2_Waits]_vars
C2_Witness ==
    /\ \E t \in InFlight : t \in Workers
    /\ \E t \in Workers \ InFlight : pc[t] = "gm_enter"
    /\ pc[Admin] = "fu_enter"

\* C3: usage_count equals the number of leases acquired and not yet released.
C3_CountIsLeases == usage_count = Cardinality(Holding)

\* C4: a monitor tick leaves the model in place whenever usage_count > 0.
C4_NoEvictionInUse == [][MonitorTicked /\ usage_count > 0 => model' = model]_vars
C4_Witness ==
    /\ \E m \in MonIds : mon[m].pc = "loop" /\ mon[m].res = "busy"
    /\ model # 0 /\ usage_count > 0 /\ last_used_age >= TimeoutSec

\* C5: an Unloaded manager has usage_count 0 and no lease outstanding.
C5_UnloadedIsUnused == model = 0 => (usage_count = 0 /\ Holding = {})

\* C6: force_unload returns False exactly when usage_count > 0 as it runs,
\* and otherwise returns True with the manager Unloaded.
C6_Returns(t) ==
    ForceUnloadReturns(t) =>
        /\ ret'[t] \in {"busy", "unloaded"}
        /\ ret'[t] = "busy" <=> usage_count > 0
        /\ ret'[t] = "unloaded" => model' = 0
C6_ForceUnloadResult == [][\A t \in Threads : C6_Returns(t)]_vars
C6_Witness == ret[Admin] = "unloaded" /\ model = 0 /\ Alive # {}

\* C7: a refused force_unload changes nothing of the manager, which is still
\* Loaded.
C7_Refused(t) ==
    ForceUnloadReturns(t) /\ ret'[t] = "busy" =>
        /\ model' # 0
        /\ UNCHANGED <<model, usage_count, last_used_age, is_loading, lock,
                       monitor_thread, stop_event, mon>>
C7_RefusalChangesNothing == [][\A t \in Threads : C7_Refused(t)]_vars
C7_Witness == ret[Admin] = "busy" /\ model # 0 /\ Holding # {}

\* C8: the monitor evicts no sooner than timeout_sec after the latest lease
\* release.
C8_IdleFromRelease == [][Evicts => released_age >= TimeoutSec]_vars
C8_Witness ==
    /\ \E m \in MonIds : mon[m].pc = "loop" /\ mon[m].res = "evicted"
    /\ model = 0
    /\ \E t \in Workers : pc[t] = "idle" /\ ret[t] \in {"ok", "raised"}

\* C9: a lease asked of an Unloaded manager runs the load step (Unloaded,
\* Loading), and when the load returns the manager is Loaded and the lease is
\* on the object just loaded.
C9_Reload(t) ==
    /\ (pc[t] = "gm_enter" /\ pc'[t] # "gm_enter" /\ model = 0) =>
           (pc'[t] = "gm_loading" /\ is_loading' /\ loads' = loads + 1 /\ model' = 0)
    /\ (pc[t] = "gm_loading" /\ pc'[t] = "gm_yield") =>
           (model' # 0 /\ ~is_loading' /\ lease'[t] = model' /\ usage_count' = usage_count + 1)
C9_ReloadAfterEviction == [][\A t \in Workers : C9_Reload(t)]_vars
C9_Witness ==
    /\ \E m \in MonIds : mon[m].pc = "loop" /\ mon[m].res = "evicted"
    /\ loads = 2
    /\ \E t \in Holding : lease[t] = model /\ model # 0

\* C10: releasing a lease takes exactly one off usage_count and refreshes
\* last_used_time, whether the body returned or raised.
C10_ReleaseOnce ==
    [][\A t \in Workers : LeaseReleased(t) =>
          (usage_count' = usage_count - 1 /\ last_used_age' = 0)]_vars

LoadRaised(t) == pc[t] \in {"gm_loading", "fl_loading"} /\ pc'[t] \in {"gm_cleanup", "idle"} /\ model' = 0
LeaseFailed(t) == pc[t] = "gm_cleanup" /\ pc'[t] = "idle"

\* C11: a failed load step is reported to the caller that started it, and from
\* the failure to that caller's return the manager stays as it was before the
\* call: Unloaded, no load marked in progress, the lock free, usage_count
\* unchanged; so the next call runs the load step again.
C11_Failure(t) ==
    /\ LoadRaised(t) =>
           /\ ~is_loading' /\ lock' = 0
           /\ usage_count' = usage_count
    /\ LeaseFailed(t) =>
           /\ ret'[t] = "raised"
           /\ usage_count' = usage_count
C11_FailedLoadLeavesUnloaded == [][\A t \in Threads : C11_Failure(t)]_vars

ForceLoadReturns(t) ==
    \/ pc[t] = "fl_loading" /\ pc'[t] = "idle"
    \/ pc[t] = "idle" /\ pc'[t] = "idle" /\ ret'[t] = "loaded" /\ ret[t] # "loaded"

\* C12: a lease is never on a null resource and ensure_model_loaded never
\* returns one: a caller that finds the manager loading waits for the lock, and
\* every call ends with the loaded object or with the load's error.
C12_Yielded == \A t \in Holding : lease[t] # 0 /\ lease[t] \in Instances
C12_Ensured(t) ==
    /\ (pc[t] = "gm_enter" /\ pc'[t] = "gm_yield") => model # 0 /\ lease'[t] = model
    /\ (pc[t] = "gm_loading" /\ pc'[t] # "gm_loading") =>
           \/ pc'[t] = "gm_yield" /\ model' # 0 /\ lease'[t] = model'
           \/ pc'[t] = "gm_cleanup" /\ lease'[t] = 0
    /\ (ForceLoadReturns(t) /\ ret'[t] = "loaded") => model' # 0
C12_NeverNull == []C12_Yielded /\ [][\A t \in Threads : C12_Ensured(t)]_vars
C12_Witness ==
    /\ Holding = Workers /\ model # 0
    /\ \A t \in Workers : lease[t] = model
    /\ ret[Admin] = "loaded" /\ loads = 2

\* C13: force_load ends with True or False and never with an exception: True
\* with the manager Loaded, False after a failed load with the manager
\* Unloaded; no step of it changes usage_count.
C13_Returns(t) ==
    /\ ForceLoadReturns(t) =>
           /\ ret'[t] \in {"loaded", "load_failed"}
           /\ ret'[t] = "loaded" => model' # 0
           /\ ret'[t] = "load_failed" => model' = 0 /\ ~is_loading'
    /\ (pc[t] = "fl_loading" \/ pc'[t] = "fl_loading" \/ ForceLoadReturns(t)) =>
           usage_count' = usage_count
C13_ForceLoadResult == [][C13_Returns(Admin)]_vars
C13_Witness ==
    /\ pc[Admin] = "idle" /\ ret[Admin] = "load_failed"
    /\ model = 0 /\ ~is_loading /\ loads = 1

ShutdownReturns == pc[Closer] = "sd_unload" /\ pc'[Closer] = "idle"

\* C14: when shutdown finds a lease outstanding, it returns normally and the
\* manager is still Loaded, with the handle the lease is on and the same
\* usage_count.
C14_ShutdownKeepsLeased ==
    [][ShutdownReturns /\ Holding # {} =>
          /\ ret'[Closer] = "ok"
          /\ model' # 0 /\ model' = model
          /\ \A t \in Holding : lease[t] = model'
          /\ usage_count' = usage_count /\ usage_count' > 0]_vars

\* C15: shutdown of a manager at rest (no lease, no call under way) has
\* stopped the monitor when it comes to the unload, and returns with the
\* manager Unloaded and no monitor thread alive.
C15_StoppedFirst == pc[Closer] = "sd_unload" => (monitor_thread = 0 /\ Alive = {})
C15_Returned ==
    ShutdownReturns =>
        /\ ret'[Closer] = "ok"
        /\ model' = 0 /\ usage_count' = 0
        /\ monitor_thread' = 0 /\ \A m \in MonIds : mon'[m].pc = "dead"
CloserMoves == pc'[Closer] # pc[Closer]
JoinReturns == pc[Closer] = "sd_joining" /\ pc'[Closer] = "sd_unload"

\* C16: no step of shutdown touches a load in flight; the monitor thread has
\* ended when _stop_monitor's join returns; shutdown's unload runs only when
\* no load is in flight, and shutdown returns normally.
C16_Step ==
    /\ (CloserMoves /\ InFlight # {}) =>
           /\ UNCHANGED <<model, is_loading, lock, loads>>
           /\ \A t \in InFlight : pc'[t] = pc[t]
    /\ JoinReturns => ~IsAlive(join.target)
    /\ ShutdownReturns => (InFlight = {} /\ ret'[Closer] = "ok")
C16_ShutdownDuringLoad == [][C16_Step]_vars

EnsureReturns(t) ==
    \/ pc[t] \in {"gm_enter", "gm_loading"} /\ pc'[t] = "gm_yield"
    \/ ForceLoadReturns(t) /\ ret'[t] = "loaded"
ShutdownDone == pc[Closer] = "idle" /\ ret[Closer] = "ok"

\* C17: a monitor thread that has ended comes back to life only in the step
\* that finishes a load; and once shutdown has returned, every
\* ensure_model_loaded that returns leaves the manager Loaded with its monitor
\* thread alive and not told to stop.
C17_NoSelfRestart ==
    \A m \in MonIds : (mon[m].pc = "dead" /\ mon'[m].pc # "dead") =>
        (model = 0 /\ model' # 0 /\ InFlight # {})
C17_Restarted(t) ==
    (ShutdownDone /\ EnsureReturns(t)) =>
        /\ model' # 0
        /\ monitor_thread' # 0 /\ mon'[monitor_thread'].pc # "dead"
        /\ ~stop_event'
C17_EnsureRestartsMonitor ==
    [][C17_NoSelfRestart /\ \A t \in Threads : C17_Restarted(t)]_vars

\* C18: at most one monitor thread of the manager is alive at any moment.
C18_OneMonitor == Cardinality(Alive) <= 1

\* C19: a manager that is Loaded with usage_count 0 is evicted by its monitor
\* unless a new lease is taken first, and the monitor evicts only with
\* usage_count 0 and last_used_time at least timeout_sec old, by the unload
\* that force_unload uses.
C19_EvictionStep ==
    Evicts => (usage_count = 0 /\ last_used_age >= TimeoutSec /\ UnloadModel)
LoadStarts(t) ==
    \/ pc[t] = "gm_enter" /\ pc'[t] = "gm_loading"
    \/ pc[t] = "idle" /\ pc'[t] = "fl_loading"

\* C20: a manager is constructed Unloaded with usage_count 0, no load run and
\* no monitor thread, it stays so until the first call, and the load step is
\* started only by a get_model or a force_load (through ensure_model_loaded).
C20_Fresh ==
    /\ model = 0 /\ usage_count = 0 /\ ~is_loading
    /\ monitor_thread = 0 /\ Alive = {}
C20_OnDemand ==
    /\ (loads' # loads \/ (~is_loading /\ is_loading')) =>
           \E t \in Workers \cup {Admin} : LoadStarts(t)
    /\ (model = 0 /\ model' # 0) => \E t \in InFlight : pc'[t] \in {"gm_yield", "idle"}
C20_NoLoadAtConstruction ==
    /\ loads = 0 /\ C20_Fresh
    /\ [](loads = 0 => C20_Fresh)
    /\ [][C20_OnDemand]_vars
C20_Witness ==
    /\ loads = 1 /\ is_loading /\ pc[Admin] = "fl_loading"
    /\ model = 0 /\ monitor_thread = 0
    /\ \A t \in Workers : pc[t] = "idle" /\ ret[t] = "none"

RECURSIVE SumOver(_, _)
SumOver(f, S) == IF S = {} THEN 0 ELSE LET x == Least(S) IN f[x] + SumOver(f, S \ {x})
Held == [t \in Workers |-> outer[t] + (IF pc[t] = "gm_yield" THEN 1 ELSE 0)]

\* C21: a worker that holds a lease takes a second one on the same manager:
\* while it holds both, usage_count counts both (it is the number of leases
\* held), and each release takes one off again.
C21_NestedCount ==
    (\E t \in Workers : Held[t] = 2) => usage_count = SumOver(Held, Workers)

\* C22: when the lease body raised, the release leaves the manager Loaded
\* with the same handle, takes the lease's one off usage_count and restarts
\* the idle time, as the release after a normal body does.
C22_Raised(t) ==
    (LeaseReleased(t) /\ ret'[t] = "raised") =>
        /\ model' # 0 /\ model' = lease[t]
        /\ usage_count' = usage_count - 1
        /\ last_used_age' = 0 /\ released_age' = 0
        /\ UNCHANGED <<is_loading, lock, monitor_thread, stop_event, mon>>
EnabledCanonical == enabled_models \cap MODEL_CONFIGS
FormsOf(c) == {c, <<Vendor>> \o c} \cup {a \in AliasKeys : alias_map[a] = c}
Started == rq.op \notin {"none", "shutdown"}

\* C23: once the multi-model manager has been started, every spelling of
\* every enabled canonical name resolves to the one manager of that name.
C23_AliasesResolve ==
    Started =>
        \A c \in EnabledCanonical :
            /\ router = "ready"
            /\ \A n \in FormsOf(c) : Found(n) /\ managers[Normalize(n)] = managers[c]

\* C24: a get_model_manager or get_model for a name that does not normalize
\* to an enabled canonical name gives None, respectively ValueError, and
\* leaves the table and the manager as they were.
C24_Request(name) ==
    ((RouterResolve(name) \/ RouterGetModel(name)) /\ Normalize(name) \notin EnabledCanonical)
        => /\ rq'.res = IF rq'.op = "get_model" THEN "ValueError" ELSE "None"
           /\ UNCHANGED <<managers, router, vars, besidesRouter>>

C24_UnknownName == [][\A name \in RequestNames : C24_Request(name)]_allvars

C24_Witness ==
    /\ rq.op = "get_model" /\ rq.res = "ValueError"
    /\ rq.name = <<Vendor, "canary">>
    /\ Normalize(rq.name) = Canary

\* C25: unload_model gives False exactly when the manager of the name is
\* busy, and load_model gives what that manager's force_load gives.
C25_RouterControl ==
    /\ rq.op = "unload_model" =>
           (rq.res = "False" <=> (Found(rq.name) /\ usage_count > 0))
    /\ rq.op = "load_model" => rq.res = "manager.force_load"

\* C26: constructing the multi-model manager leaves one manager under every
\* enabled canonical name and none under any other, and no later call
\* changes the table.
C26_Step ==
    /\ \A enabled \in EnabledChoices :
           RouterNew(enabled) =>
               router' = "ready" /\ DOMAIN managers' = enabled \cap MODEL_CONFIGS
    /\ router = "ready" => managers' = managers

C26_TableFixed == [][C26_Step]_allvars

\* C27: MultiModelManager.shutdown calls shutdown of each manager in its
\* table; when that call returns, the manager has no monitor thread running
\* and, if no lease is outstanding, is Unloaded.
C27_Returned ==
    ShutdownReturns =>
        /\ \A m \in MonIds : mon'[m].pc = "dead"
        /\ Holding = {} => model' = 0
BLockPoints == {"get_model", "gm_yield", "gm_cleanup", "get_status", "force_unload"}
C28_NoWait == (InFlight # {} /\ mgr_b.pc \in BLockPoints) => BLockAvailable(Other)
C28_Apart ==
    /\ mgr_b' # mgr_b => UNCHANGED vars
    /\ (\E t \in Threads : pc'[t] # pc[t]) => UNCHANGED mgr_b
C28_Returns ==
    \A op \in BOps : (mgr_b.pc = op) ~> (mgr_b.pc \in {"idle", "gm_yield"})
C28_NoSharedLock == []C28_NoWait /\ [][C28_Apart]_allvars /\ C28_Returns
C28_Witness ==
    /\ InFlight # {} /\ lock = Admin
    /\ \A op \in BOps : b_done[op] = loads
    /\ mgr_b.pc = "gm_yield"

\* C29: for every timeout_sec from 1 up the monitor's check interval is
\* min(30, timeout_sec / 2) in whole seconds, every wait between two ticks
\* lasts a positive time, and two check intervals fit in the timeout.
C29_CheckPeriod ==
    /\ check_interval # None =>
           /\ check_interval = Min(MaxCheckInterval, timeout_sec \div 2)
           /\ 2 * check_interval <= timeout_sec
    /\ waited # None => waited > 0

\* C30: the load step takes a local source, a file or the directory at the
\* model path that is there, whenever _check_local_model_exists finds local
\* files, and the manager's model name only when it finds none; a .nemo file
\* found is loaded with restore_from, the model name with from_pretrained.
IsLocal(source) == source[1] = ModelPath
C30_Resolve ==
    (model_source = <<>> /\ model_source' # <<>>) =>
        /\ CheckLocalModelExists =>
               /\ IsLocal(model_source')
               /\ Len(model_source') = 2 => model_source'[2] \in storage.nemo
               /\ storage.nemo # {} => Len(model_source') = 2
        /\ ~CheckLocalModelExists => model_source' = model_name
C30_Load ==
    (loaded_by = "none" /\ loaded_by' # "none") =>
        /\ loaded_by' = "restore_from" => (IsLocal(model_source) /\ storage.nemo # {})
        /\ model_source = model_name =>
               (loaded_by' = "from_pretrained" /\ ~CheckLocalModelExists)
Requested == rq.op \in {"get_model_manager", "get_model", "load_model", "unload_model",
                        "get_status"}
C38_Idempotent ==
    /\ Requested => Normalize(Normalize(rq.name)) = Normalize(rq.name)
    /\ \A a \in AliasKeys : alias_map[a] \in MODEL_CONFIGS

\* C32: as long as a worker is inside its lease, the manager's handle is the
\* object that was yielded to that worker.
C32_HandleStable == \A t \in Holding : lease[t] # 0 /\ model = lease[t]

\* C33: the monitor does not evict a model that force_load loaded before
\* timeout_sec has passed since that load finished.
C33_PrewarmKept == [][Evicts => loaded_age >= TimeoutSec]_allvars

\* C35: a handle is dropped and cleaned up at most once: whenever a thread
\* comes to drop the handle, the handle it saw is still the manager's, and no
\* two threads are about to drop at the same time.
Dropping == {u \in Unloaders : un[u].pc = "drop"}
C35_OneDropper == Cardinality(Dropping) <= 1
C35_Drop(u) == UDrop(u) => (model # 0 /\ model = un[u].seen)
C35_ReleasedOnce == []C35_OneDropper /\ [][\A u \in Unloaders : C35_Drop(u)]_allvars
C35_Witness ==
    /\ model = 0 /\ loads = 2
    /\ un[UMonitor].did = "dropped" /\ un[UAdmin].did = "dropped"
    /\ un[UCloser].did = "skipped" /\ un[UCloser].pc = "idle"

\* C37: get_model_manager never returns None, and two calls that both ran
\* between the same two shutdowns, also beside a shutdown in progress,
\* returned the same instance.
Returned == {t \in Workers : acc[t].pc = "done"}
C37_NeverNone == \A t \in Returned : acc[t].got # None
C37_SameInstance ==
    \A s, t \in Returned :
        (/\ acc[s].began = acc[s].ended
         /\ acc[t].began = acc[t].ended
         /\ acc[s].began = acc[t].began) => acc[s].got = acc[t].got
C37_Singleton == C37_NeverNone /\ C37_SameInstance

\* C31: a finished request for a model name that the configuration enables
\* took its lease from the manager the table holds for that name.
Enabled(name) == name \in enabled_models \cap MODEL_CONFIGS
C31_LeaseFromRouter ==
    (req.pc = "done" /\ Enabled(req.name)) =>
        (Found(req.name) /\ req.manager = managers[Normalize(req.name)])

\* C34: on a shared base path the load step of the manager of model X takes
\* X's own file or X's own remote name, and a download it stores is stored
\* under X's own file name.
OwnKey == SubSeq(model_name, 2, Len(model_name))
OwnSources == {model_name, <<ModelPath, NemoFilename(OwnKey)>>}
C34_Load ==
    (loaded_by = "none" /\ loaded_by' # "none") =>
        /\ model_source \in OwnSources
        /\ storage'.nemo \ storage.nemo \subseteq {NemoFilename(OwnKey)}
C34_OwnArtifact == [][C34_Load]_allvars

\* C36: with load steps that end, every call under way on the manager
\* returns, whatever the other callers and the monitor threads do.  A lease
\* that would need one load more than the model counts is left out.
LoadCapped(t) ==
    /\ pc[t] = "gm_enter"
    /\ model = 0 /\ ~is_loading
    /\ loads = MaxLoads
C36_Returns == \A t \in Callers : Underway(t) ~> (~Underway(t) \/ LoadCapped(t))
C36_Witness ==
    /\ pc[Closer] = "sd_joining"
    /\ lock = Lessee /\ pc[Lessee] = "gm_loading"
    /\ pc[Admin] = "gs_enter"
    /\ \E m \in MonIds : mon[m].pc = "lock"

====
